---- MODULE Spec2Model ----
(***************************************************************************)
(* Model of the retry-strategies simulator (src/main.go).                  *)
(*                                                                         *)
(* Durations are in milliseconds.  The clock `now` counts ticks of TickMs  *)
(* milliseconds since the instant NewServer read time.Now(); a tick value  *)
(* t stands for every instant in [t*TickMs, (t+1)*TickMs).  Go maps are    *)
(* functions with a finite domain; a missing key reads as 0.               *)
(***************************************************************************)
EXTENDS Integers, Sequences, FiniteSets, TLC

(***************************************************************************)
(* Bounds of the model.                                                    *)
(***************************************************************************)
NumClients == 2
MaxTime == 4
MaxReq == 3
MaxAttempt == 40

(***************************************************************************)
(* Program constants.                                                      *)
(***************************************************************************)
baseSleep == 100
capSleep == 10000
constantDelay == 1
scanWindow == 60
barWidth == 60
\* time.Second, of which capSleep is ten
MsPerSec == capSleep \div 10

TickMs == 5 * baseSleep
TicksPerSec == MsPerSec \div TickMs

Clients == 1..NumClients
KnownStrategies == {"constant", "backoff", "jitter", "decorrelated"}
StrategyNames == KnownStrategies \cup {"bogus"}
CapacityChoices == {1, 2}
DownChoices == {0, 2 * TickMs, 3 * TickMs}
MaxDown == 3 * TickMs

(***************************************************************************)
(* Go maps (map[int]int).                                                  *)
(***************************************************************************)
EmptyMap == [k \in {} |-> 0]

Get(m, k) == IF k \in DOMAIN m THEN m[k] ELSE 0

Inc(m, k) == [x \in (DOMAIN m) \cup {k} |-> IF x = k THEN Get(m, k) + 1 ELSE m[x]]

RECURSIVE SumOver(_, _)
SumOver(m, keys) ==
    IF keys = {} THEN 0
    ELSE LET k == CHOOSE x \in keys : TRUE
         IN  m[k] + SumOver(m, keys \ {k})

MapSum(m) == SumOver(m, DOMAIN m)

SetMax(S) == CHOOSE x \in S : \A y \in S : y <= x

Min(a, b) == IF a < b THEN a ELSE b

(***************************************************************************)
(* Time.                                                                   *)
(***************************************************************************)
\* int(elapsed.Seconds()) for an elapsed time of el ticks
SecOf(el) == el \div TicksPerSec

\* int(srv.downFor.Seconds())
DownSec(d) == d \div MsPerSec

\* ticks that are sure to have passed when a sleep of d milliseconds ends
SleepTicks(d) == IF d <= 0 THEN 0 ELSE d \div TickMs

(***************************************************************************)
(* Strategies.  Each operator gives the set of delays the Go function can  *)
(* return.  rand.Int63n(n) is any value of 0..n-1; the model draws the     *)
(* least and the greatest one.                                             *)
(***************************************************************************)
RECURSIVE Pow2(_)
Pow2(n) == IF n <= 0 THEN 1 ELSE 2 * Pow2(n - 1)

\* the value that stands for a time.Duration below every duration of the model
MinDuration == -(Pow2(30))

\* float64(baseSleep) * math.Pow(2, attempt) is below 2^63 nanoseconds:
\* 10^8 * 2^a < 2^63  <=>  5^8 < 2^(55-a)
FitsInt64(attempt) == attempt < 25 \/ (attempt <= 55 /\ 390625 < Pow2(55 - attempt))

\* time.Duration(float64(baseSleep) * math.Pow(2, float64(attempt))), then the cap;
\* past the cap the product is not computed, only compared.  A product that
\* does not fit int64 converts to an implementation-dependent value: the
\* least int64 (amd64) or the greatest (arm64).
BackoffValues(attempt) ==
    IF FitsInt64(attempt)
    THEN {IF attempt >= 20 \/ baseSleep * Pow2(attempt) > capSleep
          THEN capSleep
          ELSE baseSleep * Pow2(attempt)}
    ELSE {MinDuration, capSleep}

Int63n(n) == {0, n - 1}

constantRetry(attempt, prev) == {constantDelay}

exponentialBackoff(attempt, prev) == BackoffValues(attempt)

fullJitter(attempt, prev) ==
    UNION {Int63n(d) : d \in {x \in BackoffValues(attempt) : x > 0}}

(***************************************************************************)
(* int64, the type under time.Duration: a two's-complement number of       *)
(* nanoseconds, written as four 16-bit words, the least significant first. *)
(* Arithmetic wraps around as Go's does.                                   *)
(***************************************************************************)
WordBase == Pow2(16)

Zero64 == <<0, 0, 0, 0>>

\* the int64 of a natural number below 2^31
FromNat(n) == <<n % WordBase, n \div WordBase, 0, 0>>

RECURSIVE AddWords(_, _, _, _)
AddWords(a, b, i, carry) ==
    IF i > Len(a) THEN <<>>
    ELSE LET t == a[i] + b[i] + carry
         IN  <<t % WordBase>> \o AddWords(a, b, i + 1, t \div WordBase)

Add64(a, b) == AddWords(a, b, 1, 0)

Neg64(a) == Add64([i \in 1..Len(a) |-> WordBase - 1 - a[i]], FromNat(1))

Sub64(a, b) == Add64(a, Neg64(b))

RECURSIVE MulWords(_, _, _, _)
MulWords(a, k, i, carry) ==
    IF i > Len(a) THEN <<>>
    ELSE LET t == a[i] * k + carry
         IN  <<t % WordBase>> \o MulWords(a, k, i + 1, t \div WordBase)

\* a * k for a small natural k
Mul64(a, k) == MulWords(a, k, 1, 0)

\* the quotient of a non-negative a by a small natural k, the most
\* significant word first in the recursion
RECURSIVE DivWords(_, _, _, _)
DivWords(a, k, i, rem) ==
    IF i < 1 THEN <<>>
    ELSE LET t == rem * WordBase + a[i]
         IN  DivWords(a, k, i - 1, t % k) \o <<t \div k>>

Div64(a, k) == DivWords(a, k, Len(a), 0)

IsNeg64(a) == a[Len(a)] >= WordBase \div 2

RECURSIVE LessWords(_, _, _)
LessWords(a, b, i) ==
    IF i < 1 THEN FALSE
    ELSE IF a[i] # b[i] THEN a[i] < b[i]
    ELSE LessWords(a, b, i - 1)

\* a < b as signed numbers
Less64(a, b) ==
    IF IsNeg64(a) # IsNeg64(b) THEN IsNeg64(a) ELSE LessWords(a, b, Len(a))

MinInt64 == <<0, 0, 0, WordBase \div 2>>

MaxInt64 == <<WordBase - 1, WordBase - 1, WordBase - 1, WordBase \div 2 - 1>>

\* the time.Duration of ms milliseconds; MinDuration stands for the least int64
FromMs(ms) == IF ms < 0 THEN MinInt64 ELSE Mul64(Mul64(FromNat(ms), 1000), 1000)

\* the whole milliseconds of a time.Duration
ToMs(a) ==
    IF IsNeg64(a) THEN MinDuration
    ELSE LET q == Div64(Div64(a, 1000), 1000)
         IN  q[1] + WordBase * q[2]

Base64 == FromMs(baseSleep)

Cap64 == FromMs(capSleep)

\* rand.Int63n(n) panics unless n > 0
Int63nPanics(n) == ~Less64(Zero64, n)

\* rand.Int63n(n) for n > 0: the model draws the least and the greatest value
Int63nWide(n) == {Zero64, Sub64(n, FromNat(1))}

\* the argument of rand.Int63n in decorrelatedJitter
DecorrelatedRange(prev) ==
    LET p == IF Less64(prev, Base64) THEN Base64 ELSE prev
    IN  Sub64(Mul64(p, 3), Base64)

decorrelatedPanics(prev) == Int63nPanics(DecorrelatedRange(prev))

\* decorrelatedJitter on any time.Duration: the values it can return when
\* rand.Int63n does not panic
decorrelatedWide(prev) ==
    IF decorrelatedPanics(prev) THEN {}
    ELSE {LET d == Add64(r, Base64)
          IN  IF Less64(Cap64, d) THEN Cap64 ELSE d :
             r \in Int63nWide(DecorrelatedRange(prev))}

\* decorrelatedJitter on the delays of a run, in milliseconds: none of them
\* is long enough for the int64 arithmetic to wrap around
decorrelatedJitter(attempt, prev) ==
    LET p == IF prev < baseSleep THEN baseSleep ELSE prev
    IN  {Min(r + baseSleep, capSleep) : r \in Int63n(p * 3 - baseSleep)}

Strategy(name, attempt, prev) ==
    CASE name = "constant" -> constantRetry(attempt, prev)
      [] name = "backoff" -> exponentialBackoff(attempt, prev)
      [] name = "jitter" -> fullJitter(attempt, prev)
      [] name = "decorrelated" -> decorrelatedJitter(attempt, prev)

\* the time.Duration values a strategy can return for any arguments
StrategyResults(name, attempt, prev) ==
    CASE name = "constant" -> {FromMs(d) : d \in constantRetry(attempt, 0)}
      [] name = "backoff" -> {FromMs(d) : d \in exponentialBackoff(attempt, 0)}
      [] name = "jitter" -> {FromMs(d) : d \in fullJitter(attempt, 0)}
      [] name = "decorrelated" -> decorrelatedWide(prev)

\* the strategy can end in the panic of rand.Int63n instead of returning
StrategyPanics(name, attempt, prev) ==
    CASE name = "jitter" -> \E d \in BackoffValues(attempt) : d <= 0
      [] name = "decorrelated" -> decorrelatedPanics(prev)
      [] OTHER -> FALSE

(***************************************************************************)
(* State.                                                                  *)
(***************************************************************************)
VARIABLES
    strategyName,   \* value of the -strategy flag
    mainPc,         \* position of main / runSimulation
    usage,          \* the "Unknown strategy" message was printed
    now,            \* clock, in ticks since Server.start
    srvAlive,       \* NewServer has run
    capacity,       \* Server.capacity
    downFor,        \* Server.downFor, in milliseconds
    requests,       \* Server.requests
    accepted,       \* Server.accepted
    mu,             \* Server.mu: 0 when free, else the holder
    totalRequests,  \* Metrics.totalRequests
    wastedReqs,     \* Metrics.wastedReqs
    latencies,      \* Metrics.latencies, in milliseconds
    mMu,            \* Metrics.mu: 0 when free, else the holder
    wg,             \* the WaitGroup counter of runSimulation
    spawned,        \* loop variable i of runSimulation
    pc,             \* position of each client goroutine
    cstart,         \* clientLoop: start
    attempt,        \* clientLoop: attempt
    prevDelay,      \* clientLoop: prevDelay
    wakeAt,         \* first tick at which the client's time.Sleep can be over
    latency,        \* argument of Metrics.Record
    calls,          \* history: Server.Do calls each client has returned from
    accepts,        \* history: Server.Do calls of each client that returned true
    records,        \* history: Metrics.Record calls each client has returned from
    report,         \* what printHistogram and printSummary computed
    call            \* a Strategy called on its own: position, arguments, result

serverVars == <<srvAlive, capacity, downFor, requests, accepted, mu>>
metricsVars == <<totalRequests, wastedReqs, latencies, mMu>>
clientVars == <<pc, cstart, attempt, prevDelay, wakeAt, latency>>
historyVars == <<calls, accepts, records>>
driverVars == <<strategyName, mainPc, usage, wg, spawned, report>>
vars == <<driverVars, call, now, serverVars, metricsVars, clientVars, historyVars>>

NoReport == [maxSec |-> -1, maxCount |-> -1, capMark |-> -1,
             recoveryTime |-> -2, unresolved |-> FALSE, peakOvershoot |-> -1, p99Idx |-> -1, p99 |-> -1]

\* no Strategy is being called on its own
NoCall == [pc |-> "none", attempt |-> 0, prev |-> Zero64, ret |-> Zero64]

\* the program before main has done anything
NotStarted ==
    /\ mainPc = "main"
    /\ usage = FALSE
    /\ now = 0
    /\ srvAlive = FALSE
    /\ requests = EmptyMap
    /\ accepted = EmptyMap
    /\ mu = 0
    /\ totalRequests = 0
    /\ wastedReqs = 0
    /\ latencies = <<>>
    /\ mMu = 0
    /\ wg = 0
    /\ spawned = 0
    /\ pc = [c \in Clients |-> "unborn"]
    /\ cstart = [c \in Clients |-> 0]
    /\ attempt = [c \in Clients |-> 0]
    /\ prevDelay = [c \in Clients |-> baseSleep]
    /\ wakeAt = [c \in Clients |-> 0]
    /\ latency = [c \in Clients |-> 0]
    /\ calls = [c \in Clients |-> 0]
    /\ accepts = [c \in Clients |-> 0]
    /\ records = [c \in Clients |-> 0]
    /\ report = NoReport

Init ==
    /\ strategyName \in StrategyNames
    /\ capacity \in CapacityChoices
    /\ downFor \in DownChoices
    /\ call = NoCall
    /\ NotStarted

(***************************************************************************)
(* main and runSimulation.                                                 *)
(***************************************************************************)
\* mutant: the result of the lookup ignored
LookupAlwaysOk(name) == TRUE

\* strat, ok := strategies[*strategyName]: the value of ok
LookupOk(name) == name \in KnownStrategies

\* main, up to NewServer: the flag, the strategy lookup, the header, the server
MainStart ==
    /\ mainPc = "main"
    /\ IF LookupOk(strategyName)
       THEN /\ srvAlive' = TRUE
            /\ requests' = EmptyMap
            /\ accepted' = EmptyMap
            /\ mainPc' = "run"
            /\ UNCHANGED usage
       ELSE /\ usage' = TRUE
            /\ mainPc' = "exit"
            /\ UNCHANGED <<srvAlive, requests, accepted>>
    /\ UNCHANGED <<strategyName, wg, spawned, report, call, now, capacity, downFor, mu,
                   metricsVars, clientVars, historyVars>>

\* runSimulation: metrics := &Metrics{}; wg.Add(numClients)
RunBegin ==
    /\ mainPc = "run"
    /\ totalRequests' = 0
    /\ wastedReqs' = 0
    /\ latencies' = <<>>
    /\ wg' = wg + NumClients
    /\ spawned' = 0
    /\ mainPc' = "spawn"
    /\ UNCHANGED <<strategyName, usage, report, call, now, serverVars, mMu,
                   clientVars, historyVars>>

\* runSimulation: one turn of the loop, go func() {...}()
Spawn ==
    /\ mainPc = "spawn"
    /\ spawned < NumClients
    /\ pc' = [pc EXCEPT ![spawned + 1] = "start"]
    /\ spawned' = spawned + 1
    /\ mainPc' = IF spawned + 1 < NumClients THEN "spawn" ELSE "wait"
    /\ UNCHANGED <<strategyName, usage, wg, report, call, now, serverVars, metricsVars,
                   cstart, attempt, prevDelay, wakeAt, latency, historyVars>>

\* mutant: runSimulation without wg.Wait()
WaitNoWait == TRUE

\* wg.Wait() returns when the counter is zero
WaitReady == wg = 0

\* runSimulation: wg.Wait(); return metrics
Wait ==
    /\ mainPc = "wait"
    /\ WaitReady
    /\ mainPc' = "histogram"
    /\ UNCHANGED <<strategyName, usage, wg, spawned, report, call, now, serverVars,
                   metricsVars, clientVars, historyVars>>

\* runSimulation has returned to main
Returned == srvAlive /\ mainPc \in {"histogram", "summary", "exit"}

(***************************************************************************)
(* Server.Do, called by client c.  The client holds s.mu from DoLock to    *)
(* the end of DoReject or DoAccept, the deferred Unlock.                   *)
(***************************************************************************)
MuFree(m) == m = 0

\* mutant: the outage test on whole seconds, sec < int(downFor.Seconds())
InOutageWholeSeconds(el) == SecOf(el) < DownSec(downFor)

\* elapsed < s.downFor, for an elapsed time of el ticks
InOutage(el) == el * TickMs < downFor

\* mutant: Server.Do without the capacity test
AtCapacityNever(sec) == FALSE

\* mutant: the capacity test one request too early
AtCapacityEarly(sec) == Get(accepted, sec) + 1 >= capacity

\* mutant: the capacity test with > for >=
AtCapacityOffByOne(sec) == Get(accepted, sec) > capacity

\* s.accepted[sec] >= s.capacity
AtCapacity(sec) == Get(accepted, sec) >= capacity

\* mutant: the request counted only after the outage test
CountRequestAfterOutage(m, el) == IF el * TickMs < downFor THEN m ELSE Inc(m, SecOf(el))

\* s.requests[sec]++, for a call that read an elapsed time of el ticks
CountRequest(m, el) == Inc(m, SecOf(el))

\* the model follows at most MaxReq calls of Server.Do in one second
Budget == Get(requests, SecOf(now)) < MaxReq

\* clientLoop calls srv.Do once its sleep is over: s.mu.Lock()
DoLock(c) ==
    /\ pc[c] = "call"
    /\ wakeAt[c] <= now
    /\ Budget
    /\ MuFree(mu)
    /\ mu' = c
    /\ wakeAt' = [wakeAt EXCEPT ![c] = 0]
    /\ pc' = [pc EXCEPT ![c] = "locked"]
    /\ UNCHANGED <<driverVars, call, now, srvAlive, capacity, downFor, requests, accepted,
                   metricsVars, cstart, attempt, prevDelay, latency, historyVars>>

\* mutant: the acceptance counted before the capacity test
DoFalseCountsFirst(c) ==
    /\ mu = c
    /\ InOutage(now) \/ AtCapacity(SecOf(now))
    /\ requests' = CountRequest(requests, now)
    /\ accepted' = IF InOutage(now) THEN accepted ELSE Inc(accepted, SecOf(now))
    /\ mu' = 0
    /\ calls' = [calls EXCEPT ![c] = @ + 1]
    /\ UNCHANGED <<srvAlive, capacity, downFor, accepts, records>>

\* Server.Do returns false: the request is counted, the lock released
DoFalse(c) ==
    /\ mu = c
    /\ InOutage(now) \/ AtCapacity(SecOf(now))
    /\ requests' = CountRequest(requests, now)
    /\ mu' = 0
    /\ calls' = [calls EXCEPT ![c] = @ + 1]
    /\ UNCHANGED <<srvAlive, capacity, downFor, accepted, accepts, records>>

\* mutant: attempt++ moved before the call of the strategy
BackoffIncrementsFirst(c) ==
    /\ \E delay \in Strategy(strategyName, attempt[c] + 1, prevDelay[c]) :
          /\ prevDelay' = [prevDelay EXCEPT ![c] = delay]
          /\ wakeAt' = [wakeAt EXCEPT ![c] = now + SleepTicks(delay)]
    /\ attempt' = [attempt EXCEPT ![c] = @ + 1]
    /\ pc' = [pc EXCEPT ![c] = "call"]
    /\ UNCHANGED <<cstart, latency>>

\* clientLoop after a rejection: delay := strategy(attempt, prevDelay);
\* prevDelay = delay; attempt++; time.Sleep(delay)
Backoff(c) ==
    /\ \E delay \in Strategy(strategyName, attempt[c], prevDelay[c]) :
          /\ prevDelay' = [prevDelay EXCEPT ![c] = delay]
          /\ wakeAt' = [wakeAt EXCEPT ![c] = now + SleepTicks(delay)]
    /\ attempt' = [attempt EXCEPT ![c] = @ + 1]
    /\ pc' = [pc EXCEPT ![c] = "call"]
    /\ UNCHANGED <<cstart, latency>>

\* one turn of the loop of clientLoop that ends in the sleep
DoReject(c) ==
    /\ pc[c] = "locked"
    /\ DoFalse(c)
    /\ Backoff(c)
    /\ UNCHANGED <<driverVars, call, now, metricsVars>>

\* Server.Do returns true: the request is counted and accepted, the lock released
DoAccept(c) ==
    /\ pc[c] = "locked"
    /\ mu = c
    /\ ~(InOutage(now) \/ AtCapacity(SecOf(now)))
    /\ requests' = CountRequest(requests, now)
    /\ accepted' = Inc(accepted, SecOf(now))
    /\ mu' = 0
    /\ calls' = [calls EXCEPT ![c] = @ + 1]
    /\ accepts' = [accepts EXCEPT ![c] = @ + 1]
    /\ pc' = [pc EXCEPT ![c] = "record"]
    /\ UNCHANGED <<driverVars, call, now, srvAlive, capacity, downFor,
                   metricsVars, cstart, attempt, prevDelay, wakeAt, latency, records>>

(***************************************************************************)
(* clientLoop and Metrics.Record, run by client c.                         *)
(***************************************************************************)
\* start := time.Now(); attempt := 0; prevDelay := baseSleep
ClientStart(c) ==
    /\ pc[c] = "start"
    /\ cstart' = [cstart EXCEPT ![c] = now]
    /\ attempt' = [attempt EXCEPT ![c] = 0]
    /\ prevDelay' = [prevDelay EXCEPT ![c] = baseSleep]
    /\ pc' = [pc EXCEPT ![c] = "call"]
    /\ UNCHANGED <<driverVars, call, now, serverVars, metricsVars, wakeAt, latency,
                   historyVars>>

\* metrics.Record(time.Since(start), attempt): the arguments, then m.mu.Lock()
RecordLock(c) ==
    /\ pc[c] = "record"
    /\ MuFree(mMu)
    /\ mMu' = c
    /\ latency' = [latency EXCEPT ![c] = (now - cstart[c]) * TickMs]
    /\ pc' = [pc EXCEPT ![c] = "mlocked"]
    /\ UNCHANGED <<driverVars, call, now, serverVars, totalRequests, wastedReqs, latencies,
                   cstart, attempt, prevDelay, wakeAt, historyVars>>

\* mutant: the accepted attempt left out of the total
AddTotalWastedOnly(total, wasted) == total + wasted

\* m.totalRequests += wasted + 1
AddTotal(total, wasted) == total + wasted + 1

\* mutant: the accepted attempt counted as wasted
AddWastedCountsAll(w, wasted) == w + wasted + 1

\* m.wastedReqs += wasted
AddWasted(w, wasted) == w + wasted

\* mutant: clientLoop without the return after Record
AfterRecordNoReturn == "call"

\* where clientLoop goes once Record has returned: return
AfterRecord == "exit"

\* the body of Metrics.Record and its deferred Unlock
RecordBody(c) ==
    /\ pc[c] = "mlocked"
    /\ mMu = c
    /\ totalRequests' = AddTotal(totalRequests, attempt[c])
    /\ wastedReqs' = AddWasted(wastedReqs, attempt[c])
    /\ latencies' = Append(latencies, latency[c])
    /\ mMu' = 0
    /\ latency' = [latency EXCEPT ![c] = 0]
    /\ records' = [records EXCEPT ![c] = @ + 1]
    /\ pc' = [pc EXCEPT ![c] = AfterRecord]
    /\ UNCHANGED <<driverVars, call, now, serverVars, cstart, attempt, prevDelay, wakeAt,
                   calls, accepts>>

\* mutant: the goroutine without its deferred wg.Done()
ClientExitNoDone(c) ==
    /\ pc[c] = "exit"
    /\ cstart' = [cstart EXCEPT ![c] = 0]
    /\ attempt' = [attempt EXCEPT ![c] = 0]
    /\ prevDelay' = [prevDelay EXCEPT ![c] = baseSleep]
    /\ pc' = [pc EXCEPT ![c] = "done"]
    /\ UNCHANGED <<driverVars, call, now, serverVars, metricsVars, wakeAt, latency,
                   historyVars>>

\* clientLoop has returned and its locals are gone: the deferred wg.Done()
ClientExit(c) ==
    /\ pc[c] = "exit"
    /\ wg' = wg - 1
    /\ cstart' = [cstart EXCEPT ![c] = 0]
    /\ attempt' = [attempt EXCEPT ![c] = 0]
    /\ prevDelay' = [prevDelay EXCEPT ![c] = baseSleep]
    /\ pc' = [pc EXCEPT ![c] = "done"]
    /\ UNCHANGED <<strategyName, mainPc, usage, spawned, report, call, now, serverVars,
                   metricsVars, wakeAt, latency, historyVars>>

ClientStep(c) ==
    \/ ClientStart(c)
    \/ DoLock(c)
    \/ DoReject(c)
    \/ DoAccept(c)
    \/ RecordLock(c)
    \/ RecordBody(c)
    \/ ClientExit(c)

(***************************************************************************)
(* The clock.                                                              *)
(***************************************************************************)
\* mutant: elapsed taken from a wall clock that can be set back
AdvanceWallClock(limit) ==
    /\ srvAlive
    /\ mainPc # "exit"
    /\ now < limit
    /\ now' \in {now + 1} \cup (IF now > 0 THEN {now - 1} ELSE {})
    /\ UNCHANGED <<driverVars, call, serverVars, metricsVars, clientVars, historyVars>>

\* time.Since(s.start) never decreases; time is followed from the
\* construction of the server to the end of main
Advance(limit) ==
    /\ srvAlive
    /\ mainPc # "exit"
    /\ now < limit
    /\ now' = now + 1
    /\ UNCHANGED <<driverVars, call, serverVars, metricsVars, clientVars, historyVars>>

Tick == Advance(MaxTime)


(***************************************************************************)
(* printHistogram.                                                         *)
(***************************************************************************)
\* maxSec and maxCount start at 0 and take the largest key and count
HistMaxSec(m) == SetMax(DOMAIN m \cup {0})

HistMaxCount(m) == SetMax({m[k] : k \in DOMAIN m} \cup {0})

HistCapMark(cap, maxCount) ==
    IF maxCount > 0 THEN Min((cap * barWidth) \div maxCount, barWidth) ELSE 0

PrintHistogram ==
    /\ mainPc = "histogram"
    /\ MuFree(mu)
    /\ report' = IF DOMAIN requests = {}
                 THEN report
                 ELSE [report EXCEPT !.maxSec = HistMaxSec(requests),
                                     !.maxCount = HistMaxCount(requests),
                                     !.capMark = HistCapMark(capacity, HistMaxCount(requests))]
    /\ mainPc' = "summary"
    /\ UNCHANGED <<strategyName, usage, wg, spawned, call, now, serverVars, metricsVars,
                   clientVars, historyVars>>

(***************************************************************************)
(* printSummary.                                                           *)
(***************************************************************************)
\* mutant: the test without requests[s] > 0
StableSecondIdle(req, acc, s) == Get(req, s) - Get(acc, s) = 0

\* the test of the time-to-stable loop
StableSecond(req, acc, s) == Get(req, s) > 0 /\ Get(req, s) - Get(acc, s) = 0

\* one past the last second the two loops of printSummary visit
ScanEnd(downSec) == downSec + scanWindow

\* for s := downSec; s < downSec+60; s++ { ... break }, from second s on
RECURSIVE RecoveryScan(_, _, _, _)
RecoveryScan(req, acc, downSec, s) ==
    IF s >= ScanEnd(downSec) THEN -1
    ELSE IF StableSecond(req, acc, s) THEN s - downSec
    ELSE RecoveryScan(req, acc, downSec, s + 1)

RecoveryTime(req, acc, down) == RecoveryScan(req, acc, DownSec(down), DownSec(down))

\* mutant: the requests over the accepted ones, not over the capacity
OvershootRejected(req, cap, s) == Get(req, s) - Get(accepted, s)

\* over := srv.requests[s] - srv.capacity
Overshoot(req, cap, s) == Get(req, s) - cap

RECURSIVE PeakScan(_, _, _, _, _)
PeakScan(req, cap, downSec, s, peak) ==
    IF s >= ScanEnd(downSec) THEN peak
    ELSE LET over == Overshoot(req, cap, s)
         IN  PeakScan(req, cap, downSec, s + 1, IF over > peak THEN over ELSE peak)

PeakOvershoot(req, cap, down) == PeakScan(req, cap, DownSec(down), DownSec(down), 0)

\* sort.Slice(metrics.latencies, less): the ascending arrangement, built by
\* taking out the least element again and again
RECURSIVE SortSlice(_)
SortSlice(s) ==
    IF s = <<>> THEN <<>>
    ELSE LET i == CHOOSE j \in 1..Len(s) : \A k \in 1..Len(s) : s[j] <= s[k]
         IN  <<s[i]>> \o SortSlice(SubSeq(s, 1, i - 1) \o SubSeq(s, i + 1, Len(s)))

\* The float64 nearest to 0.99 is Mantissa99 * 2^-53; its 53 bits, first the
\* most significant.
Mantissa99 ==
    <<1, 1, 1, 1, 1, 1, 0, 1, 0, 1, 1, 1, 0, 0, 0, 0, 1, 0,
      1, 0, 0, 0, 1, 1, 1, 1, 0, 1, 0, 1, 1, 1, 0, 0, 0, 0,
      1, 0, 1, 0, 0, 0, 1, 1, 1, 1, 0, 1, 0, 1, 1, 1, 0>>

MantissaBits == 53

\* bit i of the constant 0.99, counted from the least significant
Bits99 == [i \in 1..MantissaBits |-> Mantissa99[MantissaBits + 1 - i]]

\* the bits of n times the number with the given bits, least significant first
RECURSIVE MulBits(_, _, _, _)
MulBits(bits, n, i, carry) ==
    IF i > Len(bits) /\ carry = 0 THEN <<>>
    ELSE LET t == (IF i <= Len(bits) THEN bits[i] * n ELSE 0) + carry
         IN  <<t % 2>> \o MulBits(bits, n, i + 1, t \div 2)

RECURSIVE BitsToInt(_)
BitsToInt(bits) == IF bits = <<>> THEN 0 ELSE bits[1] + 2 * BitsToInt(Tail(bits))

RECURSIVE AddOne(_)
AddOne(bits) ==
    IF bits = <<>> THEN <<1>>
    ELSE IF bits[1] = 0 THEN <<1>> \o Tail(bits)
    ELSE <<0>> \o AddOne(Tail(bits))

\* the product p * 2^-53 rounded to a float64 (to nearest, ties to even):
\* mant * 2^(shift-53)
RoundFloat(p) ==
    LET L == Len(p)
        k == IF L > MantissaBits THEN L - MantissaBits ELSE 0
        kept == SubSeq(p, k + 1, L)
        half == k > 0 /\ p[k] = 1
        sticky == \E i \in 1..(k - 1) : p[i] = 1
        up == half /\ (sticky \/ kept[1] = 1)
    IN  [mant |-> IF up THEN AddOne(kept) ELSE kept, shift |-> k]

\* int(f) for the float64 f = r.mant * 2^(r.shift-53)
TruncFloat(r) == BitsToInt(SubSeq(r.mant, MantissaBits + 1 - r.shift, Len(r.mant)))

\* mutant: the percentile taken over the indices 0..len-1
P99IndexOfLast(n) == (99 * (n - 1)) \div 100

\* idx := int(float64(len(metrics.latencies)) * 0.99), clamped to len-1
P99Index(n) ==
    LET idx == TruncFloat(RoundFloat(MulBits(Bits99, n, 1, 0)))
    IN  IF idx >= n THEN n - 1 ELSE idx

PrintSummary ==
    /\ mainPc = "summary"
    /\ MuFree(mMu)
    /\ MuFree(mu)
    /\ latencies' = SortSlice(latencies)
    /\ report' = [report EXCEPT
                    !.recoveryTime = RecoveryTime(requests, accepted, downFor),
                    !.unresolved = ~(RecoveryTime(requests, accepted, downFor) >= 0),
                    !.peakOvershoot = PeakOvershoot(requests, capacity, downFor),
                    !.p99Idx = IF Len(latencies) > 0 THEN P99Index(Len(latencies)) ELSE -1,
                    !.p99 = IF Len(latencies) > 0
                            THEN latencies'[P99Index(Len(latencies)) + 1]
                            ELSE 0]
    /\ mainPc' = "exit"
    /\ UNCHANGED <<strategyName, usage, wg, spawned, call, now, serverVars, totalRequests,
                   wastedReqs, mMu, clientVars, historyVars>>

(***************************************************************************)
(* The program: every interleaving of main, the clients and the clock.     *)
(***************************************************************************)
Next ==
    \/ MainStart
    \/ RunBegin
    \/ Spawn
    \/ Wait
    \/ PrintHistogram
    \/ PrintSummary
    \/ \E c \in Clients : ClientStep(c)
    \/ Tick

Spec == Init /\ [][Next]_vars


(***************************************************************************)
(* The program under fair scheduling: every goroutine that can take a step *)
(* takes it before the clock moves on (a step costs far less than a tick), *)
(* and the clock is followed far enough for every delay to run out.        *)
(***************************************************************************)
LiveHorizon == MaxDown \div TickMs + NumClients * (SleepTicks(capSleep) + 2 * TicksPerSec)

ClientRunnable(c) ==
    \/ pc[c] \in {"start", "locked", "mlocked", "exit"}
    \/ pc[c] = "call" /\ wakeAt[c] <= now /\ Budget /\ MuFree(mu)
    \/ pc[c] = "record" /\ MuFree(mMu)

MainRunnable ==
    \/ mainPc \in {"main", "run", "spawn", "histogram", "summary"}
    \/ mainPc = "wait" /\ WaitReady

UrgentTick ==
    /\ ~MainRunnable
    /\ \A c \in Clients : ~ClientRunnable(c)
    /\ Advance(LiveHorizon)

\* main up to the return of runSimulation
RunStep ==
    \/ MainStart
    \/ RunBegin
    \/ Spawn
    \/ Wait

MainStep ==
    \/ RunStep
    \/ PrintHistogram
    \/ PrintSummary

LiveNext ==
    \/ MainStep
    \/ \E c \in Clients : ClientStep(c)
    \/ UrgentTick

LiveSpec ==
    /\ Init
    /\ [][LiveNext]_vars
    /\ WF_vars(RunStep)
    /\ \A c \in Clients : WF_vars(ClientStep(c))
    /\ WF_vars(UrgentTick)


(***************************************************************************)
(* Reporting on its own: printHistogram and printSummary applied to a      *)
(* finished Server and Metrics whose contents are drawn from small sets    *)
(* (a run of a few clients cannot produce 250 requests in one second or    *)
(* 100 latencies).  Seconds of the outage have accepted nothing; a second  *)
(* wholly after it has accepted min(requests, capacity); the second the    *)
(* outage ends in may have accepted that or nothing.                       *)
(***************************************************************************)
ReportSeconds == {1, 2, 61, 62}
ReportCounts == {0, 3, 250}
ReportCapacities == {5, 200}
ReportDowns == {0, 2 * MsPerSec, 2 * MsPerSec + TickMs}

Ascending(n) == [i \in 1..n |-> i]
Descending(n) == [i \in 1..n |-> n + 1 - i]
ReportLatencies == {<<>>, <<7>>, <<30, 10, 20>>, Ascending(100), Descending(100),
                    Descending(101)}

\* the long latency collections go with one server, the short ones with all
ReportCountMaps(lat) ==
    IF Len(lat) > 3
    THEN {[s \in ReportSeconds |-> IF s = 2 THEN 3 ELSE 0]}
    ELSE [ReportSeconds -> ReportCounts]

ReportInit ==
    /\ strategyName = "constant"
    /\ mainPc = "histogram"
    /\ usage = FALSE
    /\ now = 0
    /\ srvAlive = TRUE
    /\ capacity \in ReportCapacities
    /\ downFor \in ReportDowns
    /\ latencies \in ReportLatencies
    /\ \E counts \in ReportCountMaps(latencies), late \in BOOLEAN :
          /\ requests = [s \in {k \in ReportSeconds : counts[k] > 0} |-> counts[s]]
          /\ accepted = [s \in {k \in ReportSeconds :
                                  /\ counts[k] > 0
                                  /\ k * MsPerSec >= downFor \/
                                        (late /\ (k + 1) * MsPerSec > downFor)}
                           |-> Min(counts[s], capacity)]
    /\ mu = 0
    /\ totalRequests = Len(latencies)
    /\ wastedReqs = 0
    /\ mMu = 0
    /\ wg = 0
    /\ spawned = NumClients
    /\ pc = [c \in Clients |-> "done"]
    /\ cstart = [c \in Clients |-> 0]
    /\ attempt = [c \in Clients |-> 0]
    /\ prevDelay = [c \in Clients |-> baseSleep]
    /\ wakeAt = [c \in Clients |-> 0]
    /\ latency = [c \in Clients |-> 0]
    /\ calls = [c \in Clients |-> 0]
    /\ accepts = [c \in Clients |-> 0]
    /\ records = [c \in Clients |-> 0]
    /\ report = NoReport
    /\ call = NoCall

ReportNext ==
    \/ PrintHistogram
    \/ PrintSummary

ReportSpec == ReportInit /\ [][ReportNext]_vars


(***************************************************************************)
(* A strategy on its own: one call of the selected Strategy function with  *)
(* arguments drawn from small sets, ending in a returned value or in the   *)
(* panic of rand.Int63n.                                                   *)
(***************************************************************************)
AttemptInputs == 0..MaxAttempt

\* 3074457345618258603ns, the least delay whose triple exceeds 2^63
OverTripled == <<43691, 43690, 43690, 10922>>

PrevInputs ==
    {MinInt64, Neg64(FromNat(1)), Zero64, FromMs(50), Base64, FromMs(3334), Cap64,
     FromMs(3600000), <<0, 0, 0, WordBase \div 4>>, OverTripled, MaxInt64}

StrategyInit ==
    /\ strategyName \in KnownStrategies
    /\ capacity = 1
    /\ downFor = 0
    /\ \E a \in AttemptInputs, p \in PrevInputs :
          call = [pc |-> "ready", attempt |-> a, prev |-> p, ret |-> Zero64]
    /\ NotStarted

StrategyReturn ==
    /\ call.pc = "ready"
    /\ \E d \in StrategyResults(strategyName, call.attempt, call.prev) :
          call' = [call EXCEPT !.pc = "returned", !.ret = d]
    /\ UNCHANGED <<driverVars, now, serverVars, metricsVars, clientVars, historyVars>>

StrategyPanic ==
    /\ call.pc = "ready"
    /\ StrategyPanics(strategyName, call.attempt, call.prev)
    /\ call' = [call EXCEPT !.pc = "panic"]
    /\ UNCHANGED <<driverVars, now, serverVars, metricsVars, clientVars, historyVars>>

\* on the delays of a run the two forms of decorrelatedJitter agree
DelaysOfARun == {baseSleep, baseSleep + 1, 3 * baseSleep - 1, 3334, capSleep - 1, capSleep}

DecorrelatedFormsAgree ==
    \A prev \in DelaysOfARun :
        /\ ~decorrelatedPanics(FromMs(prev))
        /\ decorrelatedJitter(0, prev) = {ToMs(d) : d \in decorrelatedWide(FromMs(prev))}

StrategyNext ==
    \/ StrategyReturn
    \/ StrategyPanic

StrategySpec == StrategyInit /\ [][StrategyNext]_vars


(***************************************************************************)
(* Properties.                                                             *)
(***************************************************************************)
SumCalls == SumOver(calls, Clients)
SumRecords == SumOver(records, Clients)

\* second s lies wholly inside the outage
InsideOutage(s) == (s + 1) * MsPerSec <= downFor

\* second s lies wholly after the outage
AfterOutage(s) == s * MsPerSec >= downFor

\* the seconds printSummary is to look at
Window == DownSec(downFor)..(DownSec(downFor) + scanWindow - 1)

AllSeconds == DOMAIN requests \cup DOMAIN accepted

\* C1: in every reachable state, no second has accepted more than capacity
\* requests, however the Server.Do calls of the clients interleave.
C1_NeverOverAdmits == \A s \in AllSeconds : Get(accepted, s) <= capacity

\* C1 witness: a second after the outage is full and a further call in it was
\* turned away.
C1_Witness ==
    \E s \in DOMAIN accepted :
        AfterOutage(s) /\ accepted[s] = capacity /\ Get(requests, s) > capacity

\* C2: no second wholly inside the outage ever has an accepted request, and a
\* Server.Do call returns true only at an elapsed time of at least downFor.
C2_OutageRejectsAll ==
    /\ [](\A s \in AllSeconds : InsideOutage(s) => Get(accepted, s) = 0)
    /\ [][\A c \in Clients : accepts'[c] # accepts[c] => now * TickMs >= downFor]_vars

\* C2 witness: calls were made in a second wholly inside the outage, none was
\* accepted there, and a client was accepted later.
C2_Witness ==
    /\ \E s \in DOMAIN requests : InsideOutage(s) /\ requests[s] >= 2 /\ Get(accepted, s) = 0
    /\ \E c \in Clients : accepts[c] = 1

C4_MetricsBalance ==
    /\ [](totalRequests = wastedReqs + Len(latencies) /\ Len(latencies) = SumRecords)
    /\ [][\A c \in Clients : records'[c] # records[c] =>
            /\ totalRequests' = totalRequests + attempt[c] + 1
            /\ wastedReqs' = wastedReqs + attempt[c]
            /\ Len(latencies') = Len(latencies) + 1
            /\ attempt[c] = calls[c] - 1]_vars

\* C4 witness: two clients have recorded, one of them after wasted attempts.
C4_Witness ==
    /\ SumRecords = 2
    /\ wastedReqs >= 2
    /\ mainPc = "wait"

\* C5: when runSimulation has returned every client has completed its one
\* Record call and is done, both mutexes are free, and from then on no
\* Server.Do or Metrics.Record call completes.
C5_ReturnAfterAllDone ==
    /\ [](Returned => /\ \A c \in Clients : pc[c] = "done" /\ records[c] = 1
                      /\ Len(latencies) = NumClients
                      /\ mu = 0 /\ mMu = 0)
    /\ [][Returned => /\ calls' = calls
                      /\ records' = records
                      /\ requests' = requests
                      /\ accepted' = accepted
                      /\ totalRequests' = totalRequests
                      /\ wastedReqs' = wastedReqs]_vars

\* C5 witness: the summary has been printed after a run in which a client had
\* to retry.
C5_Witness ==
    /\ Returned
    /\ mainPc = "exit"
    /\ \A c \in Clients : records[c] = 1
    /\ wastedReqs >= 1

\* C6: the requests counters sum to the number of completed Server.Do calls,
\* no counter belongs to a second that has not begun, and every completed
\* call, whatever it returns, adds exactly one to the counter of the second
\* it ran in and changes no other counter.
C6_EveryCallCounted ==
    /\ [](MapSum(requests) = SumCalls /\ \A s \in DOMAIN requests : s <= SecOf(now))
    /\ [][\A c \in Clients : calls'[c] # calls[c] =>
            /\ calls'[c] = calls[c] + 1
            /\ requests' = [s \in DOMAIN requests \cup {SecOf(now)} |->
                              IF s = SecOf(now) THEN Get(requests, s) + 1
                              ELSE requests[s]]]_vars

\* C6 witness: a call was rejected by the outage, one by the capacity and one
\* was accepted.
C6_Witness ==
    /\ \E s \in DOMAIN requests : InsideOutage(s) /\ requests[s] > 0
    /\ \E s \in DOMAIN accepted :
          AfterOutage(s) /\ accepted[s] = capacity /\ requests[s] > capacity

\* C7: a client is accepted at most once, goes from its accepted Server.Do
\* straight to its one Record call, and after that makes no further
\* Server.Do or Record call and stays done; len(latencies) never exceeds
\* numClients.
C7_DoneIsTerminal ==
    /\ [](/\ \A c \in Clients :
                /\ accepts[c] <= 1
                /\ records[c] <= accepts[c]
                /\ accepts[c] = 1 /\ records[c] = 0 => pc[c] \in {"record", "mlocked"}
                /\ pc[c] \in {"exit", "done"} => records[c] = 1
          /\ Len(latencies) = SumRecords
          /\ Len(latencies) <= NumClients)
    /\ [][\A c \in Clients :
            /\ accepts[c] = 1 => calls'[c] = calls[c] /\ accepts'[c] = 1
            /\ records[c] = 1 => records'[c] = 1
            /\ pc[c] = "done" => pc'[c] = "done"]_vars

\* C7 witness: one client is done after retrying while another one, already
\* rejected, is still retrying.
C7_Witness ==
    \E c, d \in Clients :
        /\ pc[c] = "done" /\ calls[c] >= 2 /\ records[c] = 1
        /\ pc[d] = "call" /\ calls[d] >= 1

\* the stable seconds of the window
StableSeconds ==
    {s \in Window : Get(requests, s) > 0 /\ Get(requests, s) = Get(accepted, s)}

\* C8: printSummary reports the least second s of the 60 seconds from
\* outageSeconds on with requests[s] > 0 and requests[s] = accepted[s], as
\* s - outageSeconds, and reports unresolved when there is none; with an
\* outage of 2s and requests[2] = accepted[2] = 3 it reports 0.
C8_TimeToStable ==
    mainPc = "exit" =>
        /\ report.unresolved = (StableSeconds = {})
        /\ StableSeconds = {} => report.recoveryTime = -1
        /\ StableSeconds # {} =>
              /\ report.recoveryTime + DownSec(downFor) \in StableSeconds
              /\ \A s \in StableSeconds : report.recoveryTime + DownSec(downFor) <= s
        /\ (downFor = 2 * MsPerSec /\ Get(requests, 2) = 3 /\ Get(accepted, 2) = 3)
              => report.recoveryTime = 0

\* C8 witness: the scenario of the claim, reported as 0.
C8_Witness ==
    /\ mainPc = "exit"
    /\ downFor = 2 * MsPerSec
    /\ capacity = 5
    /\ Get(requests, 2) = 3
    /\ Get(accepted, 2) = 3
    /\ report.recoveryTime = 0
    /\ ~report.unresolved

\* the scenario of C9: capacity 200, some second of the window has 250
\* requests and no second has more
PeakScenario ==
    /\ mainPc = "exit"
    /\ capacity = 200
    /\ \E s \in Window : Get(requests, s) = 250
    /\ \A s \in DOMAIN requests : requests[s] <= 250

\* C9 as stated: in the scenario the reported peak overshoot is 100.
C9_Original == PeakScenario => report.peakOvershoot = 100

\* C9 as amended: in the scenario the reported peak overshoot is 50, the 250
\* requests less the capacity of 200.
C9_PeakOvershoot == PeakScenario => report.peakOvershoot = 50

\* C9 witness: the scenario, with a second of the outage as busy as the peak.
C9_Witness ==
    /\ PeakScenario
    /\ report.peakOvershoot = 50
    /\ downFor = 2 * MsPerSec
    /\ Get(requests, 1) = 250

\* the scenario of C10: the latencies are 1, 2, ..., 100
P99Scenario ==
    /\ mainPc = "exit"
    /\ Len(latencies) = 100
    /\ {latencies[i] : i \in 1..Len(latencies)} = 1..100

\* C10 as stated: for the latencies 1..100 the reported p99 is the 99th
\* value, the element at zero-based index 98.
C10_Original == P99Scenario => report.p99Idx = 98 /\ report.p99 = 99

\* C10 as amended: for the latencies 1..100 the reported p99 is the 100th
\* value, 100, the element at zero-based index 99 = floor(0.99 * 100).
C10_P99 == P99Scenario => report.p99Idx = 99 /\ report.p99 = 100

\* C10 witness: the latencies 1..100 have been sorted and 100 was reported.
C10_Witness ==
    /\ P99Scenario
    /\ latencies = Ascending(100)
    /\ report.p99 = 100

\* min(100ms * 2^a, 10s), by doubling up to the cap
RECURSIVE CappedDouble(_)
CappedDouble(a) == IF a = 0 THEN baseSleep ELSE Min(2 * CappedDouble(a - 1), capSleep)

\* a call of the named strategy has ended
Ended(name) == strategyName = name /\ call.pc \in {"returned", "panic"}

\* C11: for every attempt count >= 0 exponentialBackoff returns exactly
\* min(100ms * 2^attempt, 10s), a value of [100ms, 10s] that is not below any
\* value it returns for attempt - 1.
C11_BackoffIsCappedDoubling ==
    (Ended("backoff") /\ call.pc = "returned") =>
        /\ call.ret = FromMs(CappedDouble(call.attempt))
        /\ ~Less64(call.ret, Base64)
        /\ ~Less64(Cap64, call.ret)
        /\ call.attempt > 0 =>
              \A v \in exponentialBackoff(call.attempt - 1, 0) : ~Less64(call.ret, FromMs(v))

\* C12: for every attempt count >= 0 a call of fullJitter returns a value
\* that is >= 0, strictly below the value of exponentialBackoff for the same
\* attempt, and below the 10s cap.
C12_JitterBelowBackoff ==
    Ended("jitter") =>
        /\ call.pc = "returned"
        /\ ~IsNeg64(call.ret)
        /\ \E b \in exponentialBackoff(call.attempt, 0) : Less64(call.ret, FromMs(b))
        /\ Less64(call.ret, Cap64)

\* C13: for every previous delay, also one below base, every value
\* decorrelatedJitter returns lies in [100ms, 10s].
C13_DecorrelatedInRange ==
    (Ended("decorrelated") /\ call.pc = "returned") =>
        /\ ~Less64(call.ret, Base64)
        /\ ~Less64(Cap64, call.ret)

\* the names the claim lists
ListedNames == {"constant", "backoff", "jitter", "decorrelated"}

\* C14: when the strategy name is not one of constant, backoff, jitter,
\* decorrelated, main prints the usage message and exits, and in no state of
\* the run is there a Server, a started client, a Server.Do or Record call, a
\* histogram or a summary; the usage message is printed for no listed name.
C14_UnknownStrategyExits ==
    /\ strategyName \notin ListedNames =>
          /\ (mainPc = "main" /\ ~usage) \/ (mainPc = "exit" /\ usage)
          /\ ~srvAlive
          /\ \A c \in Clients : pc[c] = "unborn" /\ calls[c] = 0 /\ records[c] = 0
          /\ requests = EmptyMap /\ accepted = EmptyMap
          /\ totalRequests = 0 /\ latencies = <<>>
          /\ report = NoReport
    /\ usage => strategyName \notin ListedNames

\* C14 witness: main has exited on an unknown name after printing the usage
\* message.
C14_Witness ==
    /\ strategyName \notin ListedNames
    /\ mainPc = "exit"
    /\ usage

\* map m2 is map m1 with the entry of key k one higher and nothing else changed
OneMore(m1, m2, k) ==
    /\ DOMAIN m2 = DOMAIN m1 \cup {k}
    /\ \A x \in DOMAIN m2 : m2[x] = Get(m1, x) + (IF x = k THEN 1 ELSE 0)

\* C15: a Server.Do call that returns false adds one to requests[sec] and
\* leaves accepted as it was; a call that returns true adds one to
\* requests[sec] and one to accepted[sec]; no call changes a counter of
\* another second, the capacity, the outage duration, the clock or the
\* metrics, and no step other than the end of a Server.Do call changes requests
\* or accepted.
C15_DoFrame ==
    [][/\ \A c \in Clients : calls'[c] # calls[c] =>
             /\ OneMore(requests, requests', SecOf(now))
             /\ IF accepts'[c] = accepts[c]
                THEN accepted' = accepted
                ELSE OneMore(accepted, accepted', SecOf(now))
             /\ capacity' = capacity /\ downFor' = downFor /\ srvAlive' = srvAlive
             /\ now' = now
             /\ totalRequests' = totalRequests /\ wastedReqs' = wastedReqs
             /\ latencies' = latencies
       /\ calls' = calls => requests' = requests /\ accepted' = accepted
       /\ capacity' = capacity /\ downFor' = downFor]_vars

\* C15 witness: a client was accepted after a rejection, in a second where
\* another call was turned away.
C15_Witness ==
    \E c \in Clients, s \in DOMAIN accepted :
        /\ calls[c] >= 2 /\ accepts[c] = 1
        /\ accepted[s] >= 1 /\ requests[s] > accepted[s]

\* the outage lasts a whole number of seconds
WholeSecondOutage == downFor % MsPerSec = 0

\* C16: with an outage of a whole number of seconds, between any two
\* Server.Do bodies accepted[s] = min(requests[s], capacity) for every second
\* s >= outageSeconds, and a Server.Do call at or after the end of the outage
\* returns false only when accepted[sec] already equals capacity.
C16_RejectsOnlyWhenFull ==
    /\ [](WholeSecondOutage =>
            \A s \in AllSeconds :
                s >= DownSec(downFor) => Get(accepted, s) = Min(Get(requests, s), capacity))
    /\ [][\A c \in Clients :
            (calls'[c] # calls[c] /\ accepts'[c] = accepts[c] /\ now * TickMs >= downFor)
                => Get(accepted, SecOf(now)) = capacity]_vars

\* C16 witness: after an outage of one second in which calls were rejected,
\* one second is full with a call turned away and a later one is not full.
C16_Witness ==
    /\ downFor = MsPerSec
    /\ Get(requests, 0) > 0
    /\ \E s, t \in DOMAIN accepted :
          /\ s < t
          /\ accepted[s] = capacity /\ requests[s] > capacity
          /\ accepted[t] = requests[t] /\ accepted[t] < capacity + 1

\* client c is inside clientLoop
InLoop(c) == pc[c] \in {"call", "locked", "record", "mlocked"}

\* C17: a client enters its loop with attempt = 0 and previous delay = base
\* and its attempt counter is the number of its rejections; the k-th
\* rejection calls the strategy with attempt = k-1 and the delay of the
\* rejection before (base on the first), keeps the result as previous delay,
\* and the next Server.Do call comes no sooner than that delay after it;
\* between rejections the previous delay does not change; the Record call
\* adds the number of rejections to wastedReqs.
C17_ClientSequencing ==
    /\ [](\A c \in Clients : InLoop(c) =>
            /\ attempt[c] = calls[c] - accepts[c]
            /\ calls[c] = 0 => prevDelay[c] = baseSleep)
    /\ [][\A c \in Clients :
            /\ (calls'[c] # calls[c] /\ accepts'[c] = accepts[c]) =>
                  /\ prevDelay'[c] \in Strategy(strategyName, calls[c], prevDelay[c])
                  /\ wakeAt'[c] = now + SleepTicks(prevDelay'[c])
                  /\ attempt'[c] = calls'[c]
                  /\ pc'[c] = "call"
            /\ (InLoop(c) /\ InLoop(c)' /\ calls'[c] = calls[c]) =>
                  prevDelay'[c] = prevDelay[c]
            /\ (pc[c] = "call" /\ pc'[c] = "locked") => wakeAt[c] <= now
            /\ records'[c] # records[c] =>
                  wastedReqs' = wastedReqs + (calls[c] - accepts[c])]_vars

\* C17 witness: under backoff a client rejected twice waits with attempt 2 and
\* a previous delay of 200ms while the other client has recorded wasted
\* attempts.
C17_Witness ==
    /\ strategyName = "backoff"
    /\ \E c, d \in Clients :
          /\ pc[c] = "call" /\ calls[c] = 2 /\ attempt[c] = 2
          /\ prevDelay[c] = 2 * baseSleep
          /\ records[d] = 1 /\ wastedReqs >= 1

\* C18: once runSimulation has returned, the requests counters sum to
\* totalRequests, the accepted counters sum to len(latencies), which is
\* numClients, and the requests not accepted sum to wastedReqs.
C18_Conservation ==
    Returned =>
        /\ MapSum(requests) = totalRequests
        /\ MapSum(accepted) = Len(latencies)
        /\ Len(latencies) = NumClients
        /\ SumOver([s \in AllSeconds |-> Get(requests, s) - Get(accepted, s)], AllSeconds)
              = wastedReqs

\* C18 witness: runSimulation has returned from a run with rejections in the
\* outage and rejections by the capacity.
C18_Witness ==
    /\ Returned
    /\ mainPc = "histogram"
    /\ \E s \in DOMAIN requests : InsideOutage(s) /\ requests[s] >= 1
    /\ \E s \in DOMAIN accepted : requests[s] > accepted[s]
    /\ wastedReqs >= 2

\* C19: the seconds counted by successive Server.Do calls never decrease: a
\* step that changes requests[s] or accepted[s] finds no call counted for a
\* later second, so once a call is counted for second t the counters of every
\* second below t stay as they are.
C19_SecondsNeverDecrease ==
    [][\A s \in DOMAIN requests' \cup DOMAIN accepted' :
          (Get(requests', s) # Get(requests, s) \/ Get(accepted', s) # Get(accepted, s))
              => \A t \in DOMAIN requests : t <= s]_vars

\* C19 witness: calls were counted for two different seconds, the later one
\* with an acceptance, while a client holds the server mutex for a further call.
C19_Witness ==
    /\ mu # 0
    /\ \E s, t \in DOMAIN requests :
          /\ s < t
          /\ requests[s] >= 2
          /\ requests[t] >= 1 /\ Get(accepted, t) >= 1

CeilDiv(a, b) == (a + b - 1) \div b

\* the seconds from outageSeconds on in which a request was accepted
AcceptingSeconds == {s \in DOMAIN accepted : s >= DownSec(downFor) /\ accepted[s] > 0}

\* C20: when runSimulation has returned from a run with a whole-second
\* outage, at least ceil(numClients / capacity) distinct seconds from
\* outageSeconds on have accepted a request, and the last of them is no
\* earlier than outageSeconds + ceil(numClients / capacity) - 1.
C20_RecoveryLowerBound ==
    (Returned /\ WholeSecondOutage) =>
        /\ Cardinality(AcceptingSeconds) >= CeilDiv(NumClients, capacity)
        /\ SetMax(AcceptingSeconds) >= DownSec(downFor) + CeilDiv(NumClients, capacity) - 1

\* C20 witness: with capacity 1 and an outage of one second the run has ended
\* with one acceptance in second 1 and one in second 2.
C20_Witness ==
    /\ Returned
    /\ capacity = 1
    /\ downFor = MsPerSec
    /\ Get(requests, 0) > 0
    /\ AcceptingSeconds = {1, 2}

====
